---- MODULE Spec2Model ----
(***************************************************************************)
(* Model of the retrieval-augmented assistant of as-we-may-think:          *)
(*   backend/llm_assistant.py  class LLMAssistant (vector index, model     *)
(*                             loading with one retry, generation)         *)
(*   backend/main.py           the /llm/* request handlers                 *)
(*                                                                         *)
(* The specifications share the variables:                                 *)
(*   SpecIndex,     the methods of one LLMAssistant called directly        *)
(*   SpecLoad,                                                             *)
(*   SpecParams                                                            *)
(*   Spec           the /llm/* request handlers of main.py acting on the   *)
(*                  process-wide llm_assistant, the model directory and    *)
(*                  the note table, one request after the other            *)
(*   SpecNotes      the /notes request handlers                            *)
(*   SpecAsk        asks as coroutines, suspended on their SELECT while    *)
(*                  notes are created and deleted                          *)
(*   SpecLoop       the event loop thread: a handler is entered only when  *)
(*                  no other handler is inside its synchronous code, and   *)
(*                  the model load and the generation take time            *)
(* Every handler runs to completion in one step (no await separates the    *)
(* statements that touch llm_assistant); SpecAsk splits ask at its await.  *)
(* An action binds the outcome r of its handler with \E r \in {...}, so    *)
(* that it is computed once.                                               *)
(***************************************************************************)
EXTENDS Integers, Sequences, FiniteSets, TLC

VARIABLES
    model,       \* llm_assistant.model: None or the loaded Llama handle
    model_path,  \* llm_assistant.model_path: None or a path
    index,       \* llm_assistant.index: None or the faiss IndexFlatL2
    documents,   \* llm_assistant.documents: list of document dicts
    files,       \* names of the files present in MODELS_DIR
    notes,       \* rows of the note table, in SELECT order
    issued,      \* how many note ids have been generated so far
    pending,     \* per request slot: None, or the request in flight and where it is
    last         \* the last call: its arguments, what it returned or raised

vars == <<model, model_path, index, documents, files, notes, issued, pending, last>>

(***************************************************************************)
(* Bounds of the model.                                                    *)
(***************************************************************************)
MaxDocs == 4     \* longest corpus handed to index_documents directly
MaxK == 5        \* largest top_k handed to search_documents directly
MaxNotes == 6    \* most rows of the note table

\* Python's None, for the three optional attributes of the assistant.
None == [kind |-> "None"]

(***************************************************************************)
(* Sequence helpers.                                                       *)
(***************************************************************************)
Range(s) == {s[i] : i \in 1..Len(s)}

\* Python list indexing s[idx]: 0-based, a negative idx counts from the end.
PyIndex(s, idx) == IF idx >= 0 THEN s[idx + 1] ELSE s[Len(s) + idx + 1]

(***************************************************************************)
(* The embedding encoder (SentenceTransformer.encode): an external,        *)
(* deterministic map from text to a vector of fixed dimension.  Texts are  *)
(* sequences of characters.  The table places the texts used here in a     *)
(* 2-dimensional integer grid; "fruit" is equally far from the apples note *)
(* and the oranges note.                                                   *)
(***************************************************************************)
\* The texts of this model, as sequences of characters.
apples == <<"a","p","p","l","e","s">>
oranges == <<"o","r","a","n","g","e","s">>
apples_and_oranges == apples \o <<" ","a","n","d"," ">> \o oranges
fruit == <<"f","r","u","i","t">>
Note_A == <<"N","o","t","e"," ","A">>
Note_B == <<"N","o","t","e"," ","B">>
Note_C == <<"N","o","t","e"," ","C">>

encode(text) ==
    CASE text = Note_A \o <<"\n">> \o apples -> <<1, 0>>
      [] text = Note_B \o <<"\n">> \o oranges -> <<0, 1>>
      [] text = Note_C \o <<"\n">> \o apples_and_oranges -> <<1, 1>>
      [] text = apples -> <<2, 0>>
      [] text = fruit -> <<1, 1>>
      [] OTHER -> <<0, 0>>

\* Squared Euclidean distance, the metric of faiss.IndexFlatL2.
L2sqr(u, v) ==
    LET sq[i \in 0..Len(u)] ==
            IF i = 0 THEN 0 ELSE sq[i - 1] + (u[i] - v[i]) * (u[i] - v[i])
    IN  sq[Len(u)]

(***************************************************************************)
(* faiss.IndexFlatL2.search for one query vector: the labels (0-based      *)
(* positions) of the k nearest stored vectors by increasing distance,      *)
(* equal distances by increasing position, and -1 in every slot beyond the *)
(* number of stored vectors.                                               *)
(***************************************************************************)
IndexFlatL2_search(xb, x, k) ==
    LET n == Len(xb)
        dist == [i \in 1..n |-> L2sqr(xb[i], x)]
        \* rank[i]: how many stored vectors come before vector i
        rank == [i \in 1..n |->
                    Cardinality({j \in 1..n : dist[j] < dist[i]
                                              \/ (dist[j] = dist[i] /\ j < i)})]
        at(r) == CHOOSE i \in 1..n : rank[i] = r - 1
    IN  [r \in 1..k |-> IF r <= n THEN at(r) - 1 ELSE -1]

(***************************************************************************)
(* LLMAssistant.search_documents.  Returns what the call does: the list it *)
(* returns, or that it raised.                                             *)
(***************************************************************************)
RECURSIVE CollectResults(_, _)
CollectResults(docs, labels) ==
    IF labels = <<>> THEN <<>>
    ELSE LET idx == Head(labels)
             rest == CollectResults(docs, Tail(labels))
         IN  IF idx < Len(docs) THEN <<PyIndex(docs, idx)>> \o rest ELSE rest

\* search_documents with the guard reduced to `if not self.index`: an empty
\* document list is then indexed with -1 and raises IndexError.
search_documents_index_check_only(self_index, self_documents, query, top_k) ==
    IF self_index = None
    THEN [raised |-> FALSE, value |-> <<>>]
    ELSE LET query_vector == encode(query)
             labels == IndexFlatL2_search(self_index.xb, query_vector, top_k)
         IN  IF self_documents = <<>> /\ \E i \in 1..Len(labels) : labels[i] < 0
             THEN [raised |-> TRUE, value |-> <<>>]
             ELSE [raised |-> FALSE, value |-> CollectResults(self_documents, labels)]

search_documents(self_index, self_documents, query, top_k) ==
    IF self_index = None \/ self_documents = <<>>
    THEN [raised |-> FALSE, value |-> <<>>]
    ELSE LET query_vector == encode(query)
             labels == IndexFlatL2_search(self_index.xb, query_vector, top_k)
         IN  [raised |-> FALSE, value |-> CollectResults(self_documents, labels)]

(***************************************************************************)
(* LLMAssistant.index_documents.  self.documents is assigned first; an     *)
(* empty list makes encode return an array of shape (0,), so reading       *)
(* embeddings.shape[1] raises IndexError and self.index keeps its value.   *)
(***************************************************************************)
title_content(doc) == doc.title \o <<"\n">> \o doc.content

IndexFlatL2(embeddings) == [kind |-> "IndexFlatL2", xb |-> embeddings]

index_documents(self_index, docs) ==
    LET texts == [i \in 1..Len(docs) |-> title_content(docs[i])]
        embeddings == [i \in 1..Len(texts) |-> encode(texts[i])]
    IN  IF embeddings = <<>>
        THEN [raised |-> TRUE, documents |-> docs, index |-> self_index, count |-> 0]
        ELSE [raised |-> FALSE, documents |-> docs,
              index |-> IndexFlatL2(embeddings), count |-> Len(docs)]

(***************************************************************************)
(* File names are sequences of characters, so that lower(), strip(),       *)
(* endswith() and the substring tests of the code are computed.            *)
(***************************************************************************)
UpperCase == <<"A","B","C","D","E","F","G","H","I","J","K","L","M",
               "N","O","P","Q","R","S","T","U","V","W","X","Y","Z">>
LowerCase == <<"a","b","c","d","e","f","g","h","i","j","k","l","m",
               "n","o","p","q","r","s","t","u","v","w","x","y","z">>

ToLower == [j \in 1..Len(UpperCase) |-> LowerCase[j]]
UpperIndex == [c \in Range(UpperCase) |-> CHOOSE j \in 1..Len(UpperCase) : UpperCase[j] = c]

lower(s) ==
    [i \in 1..Len(s) |->
            IF s[i] \in DOMAIN UpperIndex THEN ToLower[UpperIndex[s[i]]] ELSE s[i]]

\* Python's `sub in s` on strings.
Contains(s, sub) ==
    \E i \in 1..(Len(s) - Len(sub) + 1) : SubSeq(s, i, i + Len(sub) - 1) = sub

endswith(s, suffix) ==
    /\ Len(s) >= Len(suffix)
    /\ SubSeq(s, Len(s) - Len(suffix) + 1, Len(s)) = suffix

Whitespace == {" ", "\t", "\n", "\r"}

strip(s) ==
    LET keep == {i \in 1..Len(s) : s[i] \notin Whitespace}
    IN  IF keep = {} THEN <<>>
        ELSE SubSeq(s, CHOOSE i \in keep : \A j \in keep : i <= j,
                       CHOOSE i \in keep : \A j \in keep : i >= j)

GGUF == <<".","g","g","u","f">>
llama == <<"l","l","a","m","a">>
meta_llama == <<"m","e","t","a","-","l","l","a","m","a">>
mistral == <<"m","i","s","t","r","a","l">>
phi == <<"p","h","i">>
mini == <<"m","i","n","i">>
gemma == <<"g","e","m","m","a">>
q4_0 == <<"q","4","_","0">>
q4_k_m == <<"q","4","_","k","_","m">>

\* The model files of this model: "Llama2-Q4_0.gguf" and "phi.gguf".
NameLlama == <<"L","l","a","m","a","2","-","Q","4","_","0">> \o GGUF
NamePhi == phi \o GGUF
ModelNames == {NameLlama, NamePhi}

\* Paths: os.path.join(dir, name) keeps the directory and the name given
\* (which may itself hold "/"); os.path.basename is what follows the last "/".
\* present is the set of names, relative to MODELS_DIR, that name a file.
MODELS_DIR == "models"
join(dir, name) == [kind |-> "path", dirname |-> dir, basename |-> name]
basename(path) ==
    LET name == path.basename
        slashes == {i \in 1..Len(name) : name[i] = "/"}
    IN  IF slashes = {} THEN name
        ELSE SubSeq(name, (CHOOSE i \in slashes : \A j \in slashes : i >= j) + 1, Len(name))
exists(path, present) == path # None /\ path.dirname = MODELS_DIR /\ path.basename \in present
\* os.listdir(MODELS_DIR): the entries of the directory itself.
listdir(present) == {name \in present : "/" \notin Range(name)}

\* _get_model_params setting the batch size only for a q4_0 name.
_get_model_params_batch_for_q4_0_only(path) ==
    LET filename == lower(basename(path))
        n_ctx ==
            IF Contains(filename, llama)
            THEN IF Contains(filename, <<"3">>) \/ Contains(filename, <<"2">>) THEN 4096
                 ELSE 2048
            ELSE IF Contains(filename, mistral) THEN 4096
            ELSE IF Contains(filename, phi)
            THEN IF Contains(filename, mini) THEN 4096 ELSE 2048
            ELSE IF Contains(filename, gemma) THEN 4096
            ELSE 2048
        params == [n_ctx |-> n_ctx, n_threads |-> 4, n_gpu_layers |-> 0]
    IN  IF Contains(filename, q4_0) THEN params @@ [n_batch |-> 512] ELSE params

\* _get_model_params taking the thread count from the directory of the path.
_get_model_params_by_directory(path) ==
    LET filename == lower(basename(path))
        n_ctx ==
            IF Contains(filename, llama) THEN 4096
            ELSE IF Contains(filename, mistral) \/ Contains(filename, gemma) THEN 4096
            ELSE 2048
    IN  [n_ctx |-> n_ctx, n_threads |-> IF path.dirname = MODELS_DIR THEN 4 ELSE 1,
         n_gpu_layers |-> 0]

(***************************************************************************)
(* LLMAssistant._get_model_params: the keyword arguments for Llama(),      *)
(* derived from the lower-cased file name.                                 *)
(***************************************************************************)
_get_model_params(path) ==
    LET filename == lower(basename(path))
        n_ctx ==
            IF Contains(filename, llama) \/ Contains(filename, meta_llama)
            THEN IF Contains(filename, <<"3">>) THEN 4096
                 ELSE IF Contains(filename, <<"2">>) THEN 4096
                 ELSE 2048
            ELSE IF Contains(filename, mistral) THEN 4096
            ELSE IF Contains(filename, phi)
            THEN IF Contains(filename, mini) THEN 4096 ELSE 2048
            ELSE IF Contains(filename, gemma) THEN 4096
            ELSE 2048
        params == [n_ctx |-> n_ctx, n_threads |-> 4, n_gpu_layers |-> 0]
    IN  IF Contains(filename, q4_0) \/ Contains(filename, q4_k_m)
        THEN params @@ [n_batch |-> 512]
        ELSE params

\* The keyword arguments of the retry in _load_model.
MinimalParams == [n_ctx |-> 2048, n_threads |-> 1]

\* A handle returned by the Llama constructor.
Llama(path, kwargs) == [kind |-> "Llama", model_path |-> path, kwargs |-> kwargs]

\* What one call of the Llama constructor does: it returns, or raises one of these.
EngineErrors == {"corrupt file", "out of memory"}
LoadOutcomes == {"ok"} \cup EngineErrors

\* _load_model without the os.path.exists guard: the engine is called anyway.
_load_model_no_exists_check(self_model, self_model_path, present, first, retry) ==
    LET params == _get_model_params(self_model_path)
        a1 == [kwargs |-> params, outcome |-> first]
        a2 == [kwargs |-> MinimalParams, outcome |-> retry]
    IN  IF first = "ok"
        THEN [success |-> TRUE, error_msg |-> <<>>,
              model |-> Llama(self_model_path, params), attempts |-> <<a1>>]
        ELSE IF retry = "ok"
        THEN [success |-> TRUE, error_msg |-> <<>>,
              model |-> Llama(self_model_path, MinimalParams), attempts |-> <<a1, a2>>]
        ELSE [success |-> FALSE, error_msg |-> <<"Error loading model: ", first>>,
              model |-> self_model, attempts |-> <<a1, a2>>]

\* _load_model whose retry passes the filename-derived parameters again.
_load_model_retry_derived(self_model, self_model_path, present, first, retry) ==
    IF self_model_path = None \/ ~exists(self_model_path, present)
    THEN [success |-> FALSE,
          error_msg |-> <<"Model path '", self_model_path, "' does not exist">>,
          model |-> self_model, attempts |-> <<>>]
    ELSE LET params == _get_model_params(self_model_path)
             a1 == [kwargs |-> params, outcome |-> first]
             a2 == [kwargs |-> params, outcome |-> retry]
         IN  IF first = "ok"
             THEN [success |-> TRUE, error_msg |-> <<>>,
                   model |-> Llama(self_model_path, params), attempts |-> <<a1>>]
             ELSE IF retry = "ok"
             THEN [success |-> TRUE, error_msg |-> <<>>,
                   model |-> Llama(self_model_path, params), attempts |-> <<a1, a2>>]
             ELSE [success |-> FALSE, error_msg |-> <<"Error loading model: ", first>>,
                   model |-> self_model, attempts |-> <<a1, a2>>]

\* _load_model whose retry assigns self.model but falls through to the
\* failure return (the `return True, ""` of the retry is missing).
_load_model_retry_reports_failure(self_model, self_model_path, present, first, retry) ==
    IF self_model_path = None \/ ~exists(self_model_path, present)
    THEN [success |-> FALSE,
          error_msg |-> <<"Model path '", self_model_path, "' does not exist">>,
          model |-> self_model, attempts |-> <<>>]
    ELSE LET params == _get_model_params(self_model_path)
             a1 == [kwargs |-> params, outcome |-> first]
             a2 == [kwargs |-> MinimalParams, outcome |-> retry]
         IN  IF first = "ok"
             THEN [success |-> TRUE, error_msg |-> <<>>,
                   model |-> Llama(self_model_path, params), attempts |-> <<a1>>]
             ELSE [success |-> FALSE, error_msg |-> <<"Error loading model: ", first>>,
                   model |-> IF retry = "ok" THEN Llama(self_model_path, MinimalParams)
                             ELSE self_model,
                   attempts |-> <<a1, a2>>]

(***************************************************************************)
(* LLMAssistant._load_model, given the outcome of the first engine call    *)
(* and of the retry.  attempts lists the engine calls made.                *)
(***************************************************************************)
_load_model(self_model, self_model_path, present, first, retry) ==
    IF self_model_path = None \/ ~exists(self_model_path, present)
    THEN [success |-> FALSE,
          error_msg |-> <<"Model path '", self_model_path, "' does not exist">>,
          model |-> self_model, attempts |-> <<>>]
    ELSE LET params == _get_model_params(self_model_path)
             a1 == [kwargs |-> params, outcome |-> first]
             a2 == [kwargs |-> MinimalParams, outcome |-> retry]
             error_msg == <<"Error loading model: ", first>>
         IN  IF first = "ok"
             THEN [success |-> TRUE, error_msg |-> <<>>,
                   model |-> Llama(self_model_path, params), attempts |-> <<a1>>]
             ELSE IF retry = "ok"
             THEN [success |-> TRUE, error_msg |-> <<>>,
                   model |-> Llama(self_model_path, MinimalParams),
                   attempts |-> <<a1, a2>>]
             ELSE [success |-> FALSE, error_msg |-> error_msg,
                   model |-> self_model, attempts |-> <<a1, a2>>]

(***************************************************************************)
(* LLMAssistant.set_model_path: the path is recorded before loading.       *)
(***************************************************************************)
set_model_path(self_model, path, present, first, retry) ==
    LET r == _load_model(self_model, path, present, first, retry)
    IN  [success |-> r.success, error_msg |-> r.error_msg, attempts |-> r.attempts,
         model |-> r.model, model_path |-> path]

(***************************************************************************)
(* LLMAssistant.generate_response, given what the model call does: it      *)
(* returns a text or raises.  invoked tells whether the model was called.  *)
(***************************************************************************)
GenTexts == {"Apples are a fruit."}
GenErrors == {"context overflow"}
GenOutcomes == [kind : {"text"}, text : GenTexts] \cup [kind : {"raise"}, text : GenErrors]

NotLoadedAnswer == "Model not loaded. Please set a valid model path first."

\* generate_response whose except branch returns an empty text.
generate_response_empty_on_error(self_model, gen) ==
    IF self_model = None
    THEN [answer |-> NotLoadedAnswer, invoked |-> None, gen_raised |-> FALSE]
    ELSE IF gen.kind = "text"
    THEN [answer |-> gen.text, invoked |-> self_model, gen_raised |-> FALSE]
    ELSE [answer |-> "", invoked |-> self_model, gen_raised |-> TRUE]

generate_response(self_model, gen) ==
    IF self_model = None
    THEN [answer |-> NotLoadedAnswer, invoked |-> None, gen_raised |-> FALSE]
    ELSE IF gen.kind = "text"
    THEN [answer |-> gen.text, invoked |-> self_model, gen_raised |-> FALSE]
    ELSE [answer |-> "Error generating response: " \o gen.text,
          invoked |-> self_model, gen_raised |-> TRUE]

(***************************************************************************)
(* LLMAssistant.answer_with_context: top-3 retrieval, then generation.     *)
(* The prompt text is built from the retrieved documents and the query and *)
(* is handed to the model; it does not reach the returned value.           *)
(***************************************************************************)
ContextK == 3

answer_with_context(self_model, self_index, self_documents, query, gen) ==
    LET relevant_docs == search_documents(self_index, self_documents, query, ContextK)
        g == generate_response(self_model, gen)
    IN  [answer |-> g.answer, sources |-> relevant_docs.value,
         invoked |-> g.invoked, gen_raised |-> g.gen_raised]

(***************************************************************************)
(* Inputs.                                                                 *)
(***************************************************************************)
Queries == {apples, fruit}

NoteTexts == <<[title |-> Note_A, content |-> apples],
               [title |-> Note_B, content |-> oranges],
               [title |-> Note_C, content |-> apples_and_oranges]>>

\* A note: its id and created_at are given at creation; created_at is the
\* clock reading then, modelled by the number of the creation.
Doc(i, t) == [id |-> i, title |-> NoteTexts[t].title, content |-> NoteTexts[t].content,
              created_at |-> i]

\* The corpora handed to index_documents directly: up to MaxDocs documents,
\* the i-th with id i and the text of Note A or of Note B.
CorpusTexts == {1, 2}
Corpora ==
    UNION {{[i \in 1..n |-> Doc(i, f[i])] : f \in [1..n -> CorpusTexts]} : n \in 0..MaxDocs}

\* The note tables found in the database when the process starts: n rows,
\* n = 0..MaxNotes, in insertion order, the texts taken in turn.
NoteTable(n) == [i \in 1..n |-> Doc(i, ((i - 1) % Len(NoteTexts)) + 1)]
NoteTables == {NoteTable(n) : n \in 0..MaxNotes}

Paths == {join(MODELS_DIR, name) : name \in ModelNames}

(***************************************************************************)
(* LLMAssistant.__init__ with the defaults, as main.py constructs it.      *)
(***************************************************************************)
InitLLMAssistant ==
    /\ model_path = None
    /\ model = None
    /\ index = None
    /\ documents = <<>>

\* The request slots of the server: asks in flight at the same time.
Requests == {"r1", "r2"}

InitAssistant ==
    /\ InitLLMAssistant
    /\ files \in SUBSET ModelNames
    /\ notes = <<>>
    /\ issued = 0
    /\ pending = [r \in Requests |-> None]
    /\ last = [op |-> "init"]

\* A fresh deployment: empty model directory, empty database.
InitServer ==
    /\ InitLLMAssistant
    /\ files = {}
    /\ notes = <<>>
    /\ issued = 0
    /\ pending = [r \in Requests |-> None]
    /\ last = [op |-> "init"]

Init ==
    /\ InitLLMAssistant
    /\ files \in SUBSET ModelNames
    /\ notes \in NoteTables
    /\ issued = Len(notes)
    /\ pending = [r \in Requests |-> None]
    /\ last = [op |-> "init"]

(***************************************************************************)
(* The methods of LLMAssistant, called directly.                           *)
(***************************************************************************)
IndexDocuments ==
    \E docs \in Corpora :
        \E r \in {index_documents(index, docs)} :
            /\ documents' = r.documents
            /\ index' = r.index
            /\ last' = [op |-> "index_documents", docs |-> docs,
                        raised |-> r.raised, count |-> r.count]
            /\ UNCHANGED <<model, model_path, files, notes, issued, pending>>

SearchDocuments ==
    \E query \in Queries, top_k \in 1..MaxK :
        \E r \in {search_documents(index, documents, query, top_k)} :
            /\ last' = [op |-> "search_documents", query |-> query, top_k |-> top_k,
                        raised |-> r.raised, results |-> r.value]
            /\ UNCHANGED <<model, model_path, index, documents, files, notes, issued, pending>>

SetModelPath ==
    \E path \in Paths, first \in LoadOutcomes, retry \in LoadOutcomes :
        \E r \in {set_model_path(model, path, files, first, retry)} :
            /\ model' = r.model
            /\ model_path' = r.model_path
            /\ last' = [op |-> "set_model_path", path |-> path,
                        success |-> r.success, error_msg |-> r.error_msg,
                        attempts |-> r.attempts,
                        pre_model |-> model, pre_model_path |-> model_path]
            /\ UNCHANGED <<index, documents, files, notes, issued, pending>>

AnswerWithContext ==
    \E query \in Queries, gen \in GenOutcomes :
        \E r \in {answer_with_context(model, index, documents, query, gen)} :
            /\ last' = [op |-> "answer_with_context", query |-> query,
                        answer |-> r.answer, sources |-> r.sources,
                        invoked |-> r.invoked, gen_raised |-> r.gen_raised]
            /\ UNCHANGED <<model, model_path, index, documents, files, notes, issued, pending>>

\* The vector index alone: build and search.
NextIndex ==
    \/ IndexDocuments
    \/ SearchDocuments

SpecIndex == InitAssistant /\ [][NextIndex]_vars

\* The model manager alone: loading, and answering with what is loaded.
NextLoad ==
    \/ SetModelPath
    \/ AnswerWithContext

SpecLoad == InitAssistant /\ [][NextLoad]_vars

(***************************************************************************)
(* _get_model_params called directly, on file names made of one or two     *)
(* parts joined by "-": family markers, generation digits, quantisation    *)
(* markers, an upper-case spelling and a part that is no marker.           *)
(***************************************************************************)
NameParts == {llama, mistral, phi, mini, gemma, <<"2">>, <<"3">>, q4_0, q4_k_m,
              <<"M","i","s","t","r","a","l">>, <<"x">>}
ParamNames ==
    {a \o GGUF : a \in NameParts}
        \cup {a \o <<"-">> \o b \o GGUF : a \in NameParts, b \in NameParts}
ParamDirs == {MODELS_DIR, "downloads"}

GetModelParams ==
    \E name \in ParamNames, dir \in ParamDirs :
        \E r \in {_get_model_params(join(dir, name))} :
            /\ last' = [op |-> "_get_model_params", path |-> join(dir, name), params |-> r]
            /\ UNCHANGED <<model, model_path, index, documents, files, notes,
                           issued, pending>>

\* Parameter derivation alone, on an assistant that loads models in between.
NextParams ==
    \/ GetModelParams
    \/ SetModelPath

SpecParams == InitAssistant /\ [][NextParams]_vars

(***************************************************************************)
(* main.py: POST /llm/ask.                                                 *)
(***************************************************************************)
NoModelAnswer == "No LLM model is currently loaded. Please upload a model first."
FallbackK == 5

ask_llm(self_model, self_index, rows, query, gen) ==
    LET docs == [i \in 1..Len(rows) |->
                    [id |-> rows[i].id, title |-> rows[i].title,
                     content |-> rows[i].content, created_at |-> rows[i].created_at]]
        ix == index_documents(self_index, docs)
    IN  IF ix.raised
        THEN [status |-> 500, documents |-> ix.documents, index |-> ix.index]
        ELSE IF self_model # None
        THEN LET r == answer_with_context(self_model, ix.index, ix.documents, query, gen)
             IN  [status |-> 200, documents |-> ix.documents, index |-> ix.index,
                  answer |-> r.answer, sources |-> r.sources,
                  invoked |-> r.invoked, gen_raised |-> r.gen_raised]
        ELSE LET sources == search_documents(ix.index, ix.documents, query, FallbackK)
             IN  [status |-> 200, documents |-> ix.documents, index |-> ix.index,
                  answer |-> NoModelAnswer, sources |-> sources.value,
                  invoked |-> None, gen_raised |-> FALSE]

AskLlm ==
    \E query \in Queries, gen \in GenOutcomes :
        \E r \in {ask_llm(model, index, notes, query, gen)} :
            /\ documents' = r.documents
            /\ index' = r.index
            /\ last' = IF r.status = 200
                        THEN [op |-> "ask_llm", query |-> query, status |-> r.status,
                              answer |-> r.answer, sources |-> r.sources,
                              invoked |-> r.invoked, gen_raised |-> r.gen_raised]
                        ELSE [op |-> "ask_llm", query |-> query, status |-> r.status]
            /\ UNCHANGED <<model, model_path, files, notes, issued, pending>>

(***************************************************************************)
(* POST /llm/ask as a coroutine.  ask_llm awaits once, on the SELECT of the *)
(* notes (main.py:212); while it waits the event loop runs other requests. *)
(* From the return of the SELECT to the response no await follows, so the  *)
(* rest of the handler is one step.                                        *)
(***************************************************************************)
AskFetch ==
    \E r \in Requests, query \in Queries :
        /\ pending[r] = None
        /\ pending' = [pending EXCEPT ![r] = [at |-> "select", query |-> query,
                                              rows |-> notes]]
        /\ UNCHANGED <<model, model_path, index, documents, files, notes, issued, last>>

\* The second step reading the note table again instead of the rows its
\* SELECT returned.
AskRespond_on_current_table ==
    \E r \in Requests, gen \in GenOutcomes :
        /\ pending[r] # None
        /\ \E a \in {ask_llm(model, index, notes, pending[r].query, gen)} :
              /\ documents' = a.documents
              /\ index' = a.index
              /\ last' = IF a.status = 200
                          THEN [op |-> "ask_llm", query |-> pending[r].query,
                                corpus |-> pending[r].rows, status |-> a.status,
                                answer |-> a.answer, sources |-> a.sources,
                                invoked |-> a.invoked, gen_raised |-> a.gen_raised]
                          ELSE [op |-> "ask_llm", query |-> pending[r].query,
                                corpus |-> pending[r].rows, status |-> a.status]
        /\ pending' = [pending EXCEPT ![r] = None]
        /\ UNCHANGED <<model, model_path, files, notes, issued>>

AskRespond ==
    \E r \in Requests, gen \in GenOutcomes :
        /\ pending[r] # None
        /\ \E a \in {ask_llm(model, index, pending[r].rows, pending[r].query, gen)} :
              /\ documents' = a.documents
              /\ index' = a.index
              /\ last' = IF a.status = 200
                          THEN [op |-> "ask_llm", query |-> pending[r].query,
                                corpus |-> pending[r].rows, status |-> a.status,
                                answer |-> a.answer, sources |-> a.sources,
                                invoked |-> a.invoked, gen_raised |-> a.gen_raised]
                          ELSE [op |-> "ask_llm", query |-> pending[r].query,
                                corpus |-> pending[r].rows, status |-> a.status]
        /\ pending' = [pending EXCEPT ![r] = None]
        /\ UNCHANGED <<model, model_path, files, notes, issued>>

(***************************************************************************)
(* main.py: POST /llm/models/upload.                                       *)
(***************************************************************************)
\* Uploaded file names: accepted, wrong extension, upper-case extension.
UploadFilenames == {NamePhi, <<"m", ".", "b", "i", "n">>, <<"m", ".", "G", "G", "U", "F">>}
\* The model_name form field: empty, without the suffix, padded with a blank,
\* and one that names the parent directory.
UploadNames == {<<>>, SubSeq(NameLlama, 1, Len(NameLlama) - Len(GGUF)), <<" ">> \o NamePhi,
                <<".", ".", "/", "m">>}

\* open(save_path, "wb") needs the directory of save_path to exist: the model
\* directory itself, or its parent when the name starts with "../".
DirectoryExists(name) ==
    LET slashes == {i \in 1..Len(name) : name[i] = "/"}
    IN  slashes = {} \/ (slashes = {3} /\ SubSeq(name, 1, 2) = <<".", ".">>)

upload_model(present, filename, model_name) ==
    IF ~endswith(filename, GGUF)
    THEN [status |-> 400, files |-> present, save_name |-> <<>>]
    ELSE LET given == IF model_name # <<>> THEN strip(model_name) ELSE filename
             save_name == IF ~endswith(given, GGUF) THEN given \o GGUF ELSE given
         IN  IF DirectoryExists(save_name)
             THEN [status |-> 200, files |-> present \cup {save_name},
                   save_name |-> save_name]
             ELSE [status |-> 500, files |-> present, save_name |-> save_name]

UploadModel ==
    \E filename \in UploadFilenames, model_name \in UploadNames :
        \E r \in {upload_model(files, filename, model_name)} :
            /\ files' = r.files
            /\ last' = [op |-> "upload_model", filename |-> filename,
                        model_name |-> model_name, status |-> r.status,
                        save_name |-> r.save_name]
            /\ UNCHANGED <<model, model_path, index, documents, notes, issued, pending>>

(***************************************************************************)
(* main.py: POST /llm/models/activate/{model_name}.                        *)
(***************************************************************************)
\* activate_model without its own os.path.exists test: the name goes straight
\* to set_model_path.
activate_model_unchecked(self_model, self_model_path, present, model_name, first, retry) ==
    LET r == set_model_path(self_model, join(MODELS_DIR, model_name), present, first, retry)
    IN  [status |-> IF r.success THEN 200 ELSE 500,
         detail |-> r.error_msg, attempts |-> r.attempts,
         model |-> r.model, model_path |-> r.model_path]

activate_model(self_model, self_model_path, present, model_name, first, retry) ==
    LET path == join(MODELS_DIR, model_name)
    IN  IF ~exists(path, present)
        THEN [status |-> 404, detail |-> <<"Model ", model_name, " not found">>,
              attempts |-> <<>>, model |-> self_model, model_path |-> self_model_path]
        ELSE LET r == set_model_path(self_model, path, present, first, retry)
             IN  [status |-> IF r.success THEN 200 ELSE 500,
                  detail |-> r.error_msg, attempts |-> r.attempts,
                  model |-> r.model, model_path |-> r.model_path]

ActivateModel ==
    \E model_name \in ModelNames, first \in LoadOutcomes, retry \in LoadOutcomes :
        \E r \in {activate_model(model, model_path, files, model_name, first, retry)} :
            /\ model' = r.model
            /\ model_path' = r.model_path
            /\ last' = [op |-> "activate_model", model_name |-> model_name,
                        status |-> r.status, detail |-> r.detail,
                        attempts |-> r.attempts,
                        pre_model |-> model, pre_model_path |-> model_path]
            /\ UNCHANGED <<index, documents, files, notes, issued, pending>>

(***************************************************************************)
(* main.py: DELETE /llm/models/{model_name}.                               *)
(***************************************************************************)
\* What os.remove does: it returns, or raises OSError (the file is in use
\* or may not be removed).
RemoveOutcomes == {"ok", "OSError"}

\* delete_model removing the file first and clearing the state after it.
delete_model_removes_first(self_model, self_model_path, present, model_name, remove) ==
    LET path == join(MODELS_DIR, model_name)
    IN  IF ~exists(path, present)
        THEN [status |-> 404, model |-> self_model, model_path |-> self_model_path,
              files |-> present]
        ELSE IF remove # "ok"
        THEN [status |-> 500, model |-> self_model, model_path |-> self_model_path,
              files |-> present]
        ELSE LET active == self_model_path = path
             IN  [status |-> 200,
                  model |-> IF active THEN None ELSE self_model,
                  model_path |-> IF active THEN None ELSE self_model_path,
                  files |-> present \ {model_name}]

delete_model(self_model, self_model_path, present, model_name, remove) ==
    LET path == join(MODELS_DIR, model_name)
    IN  IF ~exists(path, present)
        THEN [status |-> 404, model |-> self_model, model_path |-> self_model_path,
              files |-> present]
        ELSE LET active == self_model_path = path
             IN  [status |-> IF remove = "ok" THEN 200 ELSE 500,
                  model |-> IF active THEN None ELSE self_model,
                  model_path |-> IF active THEN None ELSE self_model_path,
                  files |-> IF remove = "ok" THEN present \ {model_name} ELSE present]

DeleteModel ==
    \E model_name \in ModelNames, remove \in RemoveOutcomes :
        \E r \in {delete_model(model, model_path, files, model_name, remove)} :
            /\ model' = r.model
            /\ model_path' = r.model_path
            /\ files' = r.files
            /\ last' = [op |-> "delete_model", model_name |-> model_name,
                        status |-> r.status,
                        pre_model |-> model, pre_model_path |-> model_path]
            /\ UNCHANGED <<index, documents, notes, issued, pending>>

(***************************************************************************)
(* main.py: the note handlers.  A request body is the record of the fields *)
(* it holds, each a sequence of characters.                                *)
(***************************************************************************)
MaxIssued == 2   \* most notes ever created

TitleInputs == {<<>>, <<" ", "\t">>, <<" ">> \o Note_A \o <<"\n">>}
ContentInputs == {<<>>, <<"\n">>, apples, <<" ">> \o oranges}
NotePayloads ==
    {[title |-> t, content |-> c] : t \in TitleInputs, c \in ContentInputs}
        \cup {[title |-> Note_A], [content |-> apples]}

NoteIds == 1..MaxIssued

\* The field validators of NoteBase: the value fails when it is empty or
\* blank, and is stripped otherwise.
field_is_valid(v) == v # <<>> /\ strip(v) # <<>>

\* add_note whose validators only reject the empty string.
add_note_rejects_empty_only(rows, n_issued, payload) ==
    IF \/ {"title", "content"} \ DOMAIN payload # {}
       \/ payload.title = <<>>
       \/ payload.content = <<>>
    THEN [status |-> 422, notes |-> rows, issued |-> n_issued]
    ELSE LET new_note == [id |-> n_issued + 1, title |-> strip(payload.title),
                          content |-> strip(payload.content),
                          created_at |-> n_issued + 1]
         IN  [status |-> 201, notes |-> Append(rows, new_note),
              issued |-> n_issued + 1, note |-> new_note]

\* add_note: a body without title or content, or with one that fails its
\* validator, is answered 422 before the handler runs; otherwise the note gets
\* a fresh id (uuid4) and the time of creation, and is committed.
add_note(rows, n_issued, payload) ==
    IF \/ {"title", "content"} \ DOMAIN payload # {}
       \/ ~field_is_valid(payload.title)
       \/ ~field_is_valid(payload.content)
    THEN [status |-> 422, notes |-> rows, issued |-> n_issued]
    ELSE LET new_note == [id |-> n_issued + 1, title |-> strip(payload.title),
                          content |-> strip(payload.content),
                          created_at |-> n_issued + 1]
         IN  [status |-> 201, notes |-> Append(rows, new_note),
              issued |-> n_issued + 1, note |-> new_note]

AddNote ==
    /\ issued < MaxIssued
    /\ \E payload \in NotePayloads :
          \E r \in {add_note(notes, issued, payload)} :
              /\ notes' = r.notes
              /\ issued' = r.issued
              /\ last' = [op |-> "add_note", payload |-> payload, status |-> r.status]
              /\ UNCHANGED <<model, model_path, index, documents, files, pending>>

\* Python's list minus the rows with the given id.
RECURSIVE WithoutId(_, _)
WithoutId(rows, note_id) ==
    IF rows = <<>> THEN <<>>
    ELSE IF Head(rows).id = note_id THEN WithoutId(Tail(rows), note_id)
    ELSE <<Head(rows)>> \o WithoutId(Tail(rows), note_id)

\* delete_note answering 204 without removing the row.
delete_note_without_commit(rows, note_id) ==
    IF \A i \in 1..Len(rows) : rows[i].id # note_id
    THEN [status |-> 404, notes |-> rows]
    ELSE [status |-> 204, notes |-> rows]

delete_note(rows, note_id) ==
    IF \A i \in 1..Len(rows) : rows[i].id # note_id
    THEN [status |-> 404, notes |-> rows]
    ELSE [status |-> 204, notes |-> WithoutId(rows, note_id)]

DeleteNote ==
    \E note_id \in NoteIds :
        \E r \in {delete_note(notes, note_id)} :
            /\ notes' = r.notes
            /\ last' = [op |-> "delete_note", note_id |-> note_id, status |-> r.status]
            /\ UNCHANGED <<model, model_path, index, documents, files, issued, pending>>

\* get_notes: the rows by decreasing created_at.
get_notes(rows) ==
    LET n == Len(rows)
        rank == [i \in 1..n |->
                    Cardinality({j \in 1..n : rows[j].created_at > rows[i].created_at})]
    IN  [r \in 1..n |-> rows[CHOOSE i \in 1..n : rank[i] = r - 1]]

GetNotes ==
    \E r \in {get_notes(notes)} :
        /\ last' = [op |-> "get_notes", notes |-> r]
        /\ UNCHANGED <<model, model_path, index, documents, files, notes, issued, pending>>

\* search_notes: the notes whose title holds the query (LIKE '%query%', which
\* SQLite matches without regard to ASCII case), by decreasing created_at, at
\* most ten of them.
TitleQueries == {<<"n", "o", "t", "e">>, <<"B">>}
SearchLimit == 10

search_notes(rows, query) ==
    LET hits == get_notes(SelectSeq(rows, LAMBDA row : Contains(lower(row.title), lower(query))))
    IN  SubSeq(hits, 1, IF Len(hits) < SearchLimit THEN Len(hits) ELSE SearchLimit)

SearchNotes ==
    \E query \in TitleQueries :
        \E r \in {search_notes(notes, query)} :
            /\ last' = [op |-> "search_notes", query |-> query, notes |-> r]
            /\ UNCHANGED <<model, model_path, index, documents, files, notes,
                           issued, pending>>

\* The note store alone, starting from an empty database.
NextNotes ==
    \/ AddNote
    \/ DeleteNote
    \/ GetNotes
    \/ SearchNotes

SpecNotes == InitServer /\ [][NextNotes]_vars

(***************************************************************************)
(* main.py: GET /llm/models.  The listing has one entry per .gguf file of  *)
(* the model directory (os.listdir gives them in no particular order).     *)
(***************************************************************************)
\* list_models marking every listed file while a path is recorded.
list_models_marks_every_file(self_model_path, present) ==
    {[name |-> filename, path |-> join(MODELS_DIR, filename),
      is_active |-> self_model_path # None] :
        filename \in {f \in listdir(present) : endswith(f, GGUF)}}

list_models(self_model_path, present) ==
    {[name |-> filename, path |-> join(MODELS_DIR, filename),
      is_active |-> (self_model_path # None /\ filename = basename(self_model_path))] :
        filename \in {f \in listdir(present) : endswith(f, GGUF)}}

ListModels ==
    \E r \in {list_models(model_path, files)} :
        /\ last' = [op |-> "list_models", models |-> r]
        /\ UNCHANGED <<model, model_path, index, documents, files, notes, issued, pending>>

Next ==
    \/ AskLlm
    \/ ListModels
    \/ UploadModel
    \/ ActivateModel
    \/ DeleteModel

Spec == Init /\ [][Next]_vars

\* Asks in flight together with note creation and note deletion.
NextAsk ==
    \/ AskFetch
    \/ AskRespond
    \/ AddNote
    \/ DeleteNote

SpecAsk == InitServer /\ [][NextAsk]_vars

(***************************************************************************)
(* The event loop thread.  Every handler of main.py is an `async def`, so  *)
(* it runs on the one thread of the event loop, which leaves a handler     *)
(* only at an await.  ask_llm awaits its SELECT (line 212) and nothing     *)
(* after it; activate_model, delete_model and list_models await nothing.   *)
(* Llama(...) (llm_assistant.py 92, 106) and self.model(...) (191) are     *)
(* synchronous calls that take time: while a request is inside one, the    *)
(* thread is inside that request.                                          *)
(*   pending[r].at = "select"    the ask is suspended on its SELECT        *)
(*                   "tested"    the ask found llm_assistant.model truthy  *)
(*                               (main.py 230) and goes on to the call     *)
(*                   "generate"  the ask is inside self.model(...)         *)
(*                   "load"      the activation is inside Llama(...)       *)
(***************************************************************************)
At(r, stage) == pending[r] # None /\ pending[r].at = stage

\* The thread is inside no handler: every request in flight is suspended.
LoopFree == \A r \in Requests : ~At(r, "load") /\ ~At(r, "tested") /\ ~At(r, "generate")

\* activate_model up to the call of Llama(...): 404 for a missing file,
\* else set_model_path has assigned model_path (line 121) and the load runs.
\* The variant that enters the handler whatever the thread is doing:
ActivateBegin_on_another_thread ==
    \E r \in Requests, model_name \in ModelNames :
        /\ pending[r] = None
        /\ \E path \in {join(MODELS_DIR, model_name)} :
              IF ~exists(path, files)
              THEN \E a \in {activate_model(model, model_path, files, model_name, "ok", "ok")} :
                      /\ last' = [op |-> "activate_model", model_name |-> model_name,
                                  status |-> a.status, detail |-> a.detail,
                                  attempts |-> a.attempts,
                                  pre_model |-> model, pre_model_path |-> model_path]
                      /\ UNCHANGED <<model_path, pending>>
              ELSE /\ model_path' = path
                   /\ pending' = [pending EXCEPT ![r] =
                                     [at |-> "load", model_name |-> model_name,
                                      pre_model_path |-> model_path]]
                   /\ UNCHANGED last
        /\ UNCHANGED <<model, index, documents, files, notes, issued>>

ActivateBegin ==
    \E r \in Requests, model_name \in ModelNames :
        /\ LoopFree
        /\ pending[r] = None
        /\ \E path \in {join(MODELS_DIR, model_name)} :
              IF ~exists(path, files)
              THEN \E a \in {activate_model(model, model_path, files, model_name, "ok", "ok")} :
                      /\ last' = [op |-> "activate_model", model_name |-> model_name,
                                  status |-> a.status, detail |-> a.detail,
                                  attempts |-> a.attempts,
                                  pre_model |-> model, pre_model_path |-> model_path]
                      /\ UNCHANGED <<model_path, pending>>
              ELSE /\ model_path' = path
                   /\ pending' = [pending EXCEPT ![r] =
                                     [at |-> "load", model_name |-> model_name,
                                      pre_model_path |-> model_path]]
                   /\ UNCHANGED last
        /\ UNCHANGED <<model, index, documents, files, notes, issued>>

\* The load returns or raises (twice), and the handler answers.
ActivateEnd ==
    \E r \in Requests, first \in LoadOutcomes, retry \in LoadOutcomes :
        /\ At(r, "load")
        /\ \E a \in {activate_model(model, pending[r].pre_model_path, files,
                                    pending[r].model_name, first, retry)} :
              /\ model' = a.model
              /\ model_path' = a.model_path
              /\ last' = [op |-> "activate_model", model_name |-> pending[r].model_name,
                          status |-> a.status, detail |-> a.detail,
                          attempts |-> a.attempts,
                          pre_model |-> model,
                          pre_model_path |-> pending[r].pre_model_path]
        /\ pending' = [pending EXCEPT ![r] = None]
        /\ UNCHANGED <<index, documents, files, notes, issued>>

\* ask_llm from the return of its SELECT to the test of line 230: the rows
\* are indexed; without a handle (or when indexing raises) the handler
\* answers at once, with a handle it goes on to answer_with_context.
AskTest ==
    \E r \in Requests :
        /\ LoopFree
        /\ At(r, "select")
        /\ \E ix \in {index_documents(index, pending[r].rows)} :
              /\ documents' = ix.documents
              /\ index' = ix.index
              /\ IF ix.raised
                 THEN /\ last' = [op |-> "ask_llm", query |-> pending[r].query,
                                  corpus |-> pending[r].rows, status |-> 500]
                      /\ pending' = [pending EXCEPT ![r] = None]
                 ELSE IF model = None
                 THEN \E sources \in {search_documents(ix.index, ix.documents,
                                                       pending[r].query, FallbackK)} :
                         /\ last' = [op |-> "ask_llm", query |-> pending[r].query,
                                     corpus |-> pending[r].rows, status |-> 200,
                                     answer |-> NoModelAnswer, sources |-> sources.value,
                                     tested |-> None, invoked |-> None,
                                     gen_raised |-> FALSE]
                         /\ pending' = [pending EXCEPT ![r] = None]
                 ELSE /\ pending' = [pending EXCEPT ![r] =
                                        [at |-> "tested", query |-> pending[r].query,
                                         rows |-> pending[r].rows, tested |-> model]]
                      /\ UNCHANGED last
        /\ UNCHANGED <<model, model_path, files, notes, issued>>

\* answer_with_context up to the call of the handle: the top-3 retrieval,
\* then generate_response reads self.model (lines 186, 191) and calls it.
AskInvoke ==
    \E r \in Requests :
        /\ At(r, "tested")
        /\ \E relevant_docs \in {search_documents(index, documents, pending[r].query, ContextK)} :
              pending' = [pending EXCEPT ![r] =
                             [at |-> "generate", query |-> pending[r].query,
                              rows |-> pending[r].rows, tested |-> pending[r].tested,
                              invoked |-> model, sources |-> relevant_docs.value]]
        /\ UNCHANGED <<model, model_path, index, documents, files, notes, issued, last>>

\* The generation returns or raises, and the handler answers.
AskEnd ==
    \E r \in Requests, gen \in GenOutcomes :
        /\ At(r, "generate")
        /\ \E g \in {generate_response(pending[r].invoked, gen)} :
              last' = [op |-> "ask_llm", query |-> pending[r].query,
                       corpus |-> pending[r].rows, status |-> 200,
                       answer |-> g.answer, sources |-> pending[r].sources,
                       tested |-> pending[r].tested, invoked |-> g.invoked,
                       gen_raised |-> g.gen_raised]
        /\ pending' = [pending EXCEPT ![r] = None]
        /\ UNCHANGED <<model, model_path, index, documents, files, notes, issued>>

\* The handlers that run to completion in one step, entered by the thread.
LoopAskFetch == LoopFree /\ AskFetch
LoopDeleteModel == LoopFree /\ DeleteModel
LoopListModels == LoopFree /\ ListModels

\* A server holding both model files and one note of each text.
InitLoop ==
    /\ InitLLMAssistant
    /\ files = ModelNames
    /\ notes = NoteTable(Len(NoteTexts))
    /\ issued = Len(notes)
    /\ pending = [r \in Requests |-> None]
    /\ last = [op |-> "init"]

NextLoop ==
    \/ ActivateBegin
    \/ ActivateEnd
    \/ LoopAskFetch
    \/ AskTest
    \/ AskInvoke
    \/ AskEnd
    \/ LoopDeleteModel
    \/ LoopListModels

SpecLoop == InitLoop /\ [][NextLoop]_vars

(***************************************************************************)
(* Properties of the vector index (SpecIndex).                             *)
(***************************************************************************)
\* The last call was search_documents on an index built from the held documents.
SearchedBuiltIndex ==
    /\ last.op = "search_documents"
    /\ documents # <<>>
    /\ index # None
    /\ Len(index.xb) = Len(documents)

\* Squared L2 distance between a document's vector and the vector of the query.
DocDistance(doc, query) == L2sqr(encode(title_content(doc)), encode(query))

\* Position of a returned document in the held corpus (ids are distinct).
PositionOf(doc) == CHOOSE i \in 1..Len(documents) : documents[i] = doc

\* C1: after index_documents(D) with n = |D| >= 1, search_documents(q, k) with
\* k > n returns exactly the n documents of D, each exactly once, and does
\* not raise.
C1_SearchBeyondCorpusReturnsEachOnce ==
    (SearchedBuiltIndex /\ last.top_k > Len(documents)) =>
        /\ ~last.raised
        /\ Len(last.results) = Len(documents)
        /\ \A i \in 1..Len(documents) :
              Cardinality({j \in 1..Len(last.results) : last.results[j] = documents[i]}) = 1

\* C2: index_documents(D) followed by search_documents(q, k), k >= 1, returns
\* at most k documents, all of D, by non-decreasing squared L2 distance to the
\* query, equal distances in insertion order.
C2_SearchSortedTopK ==
    SearchedBuiltIndex =>
        /\ ~last.raised
        /\ Len(last.results) <= last.top_k
        /\ \A j \in 1..Len(last.results) : last.results[j] \in Range(documents)
        /\ \A j \in 1..(Len(last.results) - 1) :
              LET a == last.results[j]
                  b == last.results[j + 1]
              IN  \/ DocDistance(a, last.query) < DocDistance(b, last.query)
                  \/ /\ DocDistance(a, last.query) = DocDistance(b, last.query)
                     /\ PositionOf(a) <= PositionOf(b)

\* C3: search_documents on an index never built, or with an empty document
\* list, returns the empty list and does not raise, for every query and k.
C3_SearchOnEmptyIndexReturnsEmpty ==
    (last.op = "search_documents" /\ (index = None \/ documents = <<>>)) =>
        /\ ~last.raised
        /\ last.results = <<>>

\* C3 witness: a search with more slots than vectors on an index that still
\* holds vectors while the document list is empty (index_documents([]) raised
\* after an earlier build).
C3_Witness ==
    /\ last.op = "search_documents"
    /\ documents = <<>>
    /\ index # None
    /\ last.top_k > Len(index.xb)
    /\ last.results = <<>>

(***************************************************************************)
(* Properties of the model manager called directly (SpecLoad).             *)
(***************************************************************************)
\* The last call was set_model_path on a path that names no file.
SetMissingPath == last.op = "set_model_path" /\ ~exists(last.path, files)

\* The last call was set_model_path on an existing file.
SetExistingPath == last.op = "set_model_path" /\ exists(last.path, files)

\* C6: set_model_path(p) with p naming no file returns (False, "... does not
\* exist") without calling the engine, and with no model loaded before the
\* call none is loaded after it.
C6_MissingPathFailsWithoutLoad ==
    SetMissingPath =>
        /\ ~last.success
        /\ last.error_msg = <<"Model path '", last.path, "' does not exist">>
        /\ last.attempts = <<>>
        /\ (last.pre_model = None => model = None)

\* C6 witness: such a call made while nothing was loaded.
C6_Witness ==
    /\ SetMissingPath
    /\ last.pre_model = None
    /\ ~last.success

\* C7: set_model_path on an existing file calls the engine once or twice; the
\* second call is made iff the first raised, passes n_ctx 2048, one thread and
\* no GPU layers whatever the file name, and no third follows; the call ends
\* with the new handle loaded and success, or with failure and the handle
\* that was held before.
C7_AtMostOneRetryWithMinimalParams ==
    SetExistingPath =>
        /\ Len(last.attempts) \in {1, 2}
        /\ (Len(last.attempts) = 2 <=> last.attempts[1].outcome # "ok")
        /\ Len(last.attempts) = 2 =>
              LET kwargs == last.attempts[2].kwargs
              IN  /\ kwargs.n_ctx = 2048
                  /\ kwargs.n_threads = 1
                  /\ ("n_gpu_layers" \in DOMAIN kwargs => kwargs.n_gpu_layers = 0)
                  /\ "n_batch" \notin DOMAIN kwargs
        /\ \/ /\ last.success
              /\ last.attempts[Len(last.attempts)].outcome = "ok"
              /\ model # None
              /\ model.model_path = last.path
           \/ /\ ~last.success
              /\ last.attempts[Len(last.attempts)].outcome # "ok"
              /\ model = last.pre_model

\* C7 witness: a retry for the file whose name derives n_ctx 4096 and n_batch.
C7_Witness ==
    /\ SetExistingPath
    /\ basename(last.path) = NameLlama
    /\ Len(last.attempts) = 2
    /\ last.attempts[1].kwargs.n_ctx = 4096

\* The first engine call raised and the retry returned.
RetrySucceeded ==
    /\ SetExistingPath
    /\ Len(last.attempts) = 2
    /\ last.attempts[1].outcome # "ok"
    /\ last.attempts[2].outcome = "ok"

\* C8: when the first load raises and the retry succeeds, set_model_path
\* returns (True, ""), and the loaded handle is the one constructed for this
\* path with the minimal parameters.
C8_RetrySuccessIsSuccess ==
    RetrySucceeded =>
        /\ last.success
        /\ last.error_msg = <<>>
        /\ model = [kind |-> "Llama", model_path |-> last.path,
                    kwargs |-> [n_ctx |-> 2048, n_threads |-> 1]]

\* C8 witness: a successful retry that replaced a handle loaded earlier.
C8_Witness ==
    /\ RetrySucceeded
    /\ last.pre_model # None
    /\ model # last.pre_model

(***************************************************************************)
(* Properties of the request handlers (Spec).                              *)
(***************************************************************************)
\* delete_model succeeded on the file the held handle had been loaded from.
DeletedLoadedModel ==
    /\ last.op = "delete_model"
    /\ last.status = 200
    /\ last.pre_model # None
    /\ last.pre_model.model_path = join(MODELS_DIR, last.model_name)

\* C4: once delete_model succeeds on the file the loaded handle came from, no
\* handle remains loaded, and the next ask answers with the no-model sentinel
\* without calling a model.
C4_DeleteLoadedModelUnloads ==
    [][DeletedLoadedModel =>
          /\ model = None
          /\ (last'.op = "ask_llm" /\ last'.status = 200) =>
                (last'.answer = NoModelAnswer /\ last'.invoked = None)]_vars

\* activate_model ran set_model_path while a handle from another file was
\* held, and both engine calls raised.
FailedActivationOverLoaded ==
    /\ last.op = "activate_model"
    /\ last.pre_model # None
    /\ last.pre_model.model_path # join(MODELS_DIR, last.model_name)
    /\ Len(last.attempts) = 2
    /\ last.attempts[2].outcome # "ok"

\* C5: if both load attempts for p fail while a model from another file is
\* active, the call fails with the first attempt's error message and the
\* active-model state is as before the call: the same handle, and the same
\* path recorded as active.
C5_FailedLoadKeepsActiveModel ==
    FailedActivationOverLoaded =>
        /\ last.status = 500
        /\ last.detail = <<"Error loading model: ", last.attempts[1].outcome>>
        /\ model = last.pre_model
        /\ model_path = last.pre_model_path

\* What ask returned is the sentinel with a top-5 search when no handle is
\* held, and another answer with a top-3 search when one is.
AskResponseThreeOrFive ==
    IF model = None
    THEN /\ last.answer = NoModelAnswer
         /\ last.invoked = None
         /\ last.sources = search_documents(index, documents, last.query, 5).value
         /\ Len(last.sources) <= 5
    ELSE /\ last.answer # NoModelAnswer
         /\ last.invoked = model
         /\ last.sources = search_documents(index, documents, last.query, 3).value
         /\ Len(last.sources) <= 3

\* C9: ask with no model loaded returns the no-model sentinel and the result
\* of a top-5 search without calling a model; ask with a model loaded returns
\* an answer other than the sentinel and the result of a top-3 search.
C9_AskSourcesThreeOrFive ==
    last.op = "ask_llm" => (last.status = 200 /\ AskResponseThreeOrFive)

\* C10: when a model is loaded and the model call raises, ask still returns
\* 200: the answer is the text describing the error, the sources are the
\* top-3 documents, and the loaded handle and its path are as before.
C10_GenerationErrorIsAnswer ==
    [][(last'.op = "ask_llm" /\ last' # last) =>
          /\ (model # None /\ notes # <<>>) => last'.status = 200
          /\ (last'.status = 200 /\ last'.gen_raised) =>
                /\ model # None
                /\ \E e \in GenErrors : last'.answer = "Error generating response: " \o e
                /\ last'.sources = search_documents(index', documents', last'.query, 3).value
                /\ last'.invoked = model
                /\ model' = model
                /\ model_path' = model_path]_vars

\* C10 witness: an ask whose model call raised, over more than three notes.
C10_Witness ==
    /\ last.op = "ask_llm"
    /\ last.status = 200
    /\ last.gen_raised
    /\ Len(notes) > 3
    /\ Len(last.sources) = 3

\* C11: ask on an empty note table completes with a normal response whose
\* sources are empty, with and without a model loaded.
C11_AskOnEmptyCorpusSucceeds ==
    (last.op = "ask_llm" /\ notes = <<>>) =>
        /\ last.status = 200
        /\ last.sources = <<>>

\* C12: the index holds as many vectors as there are held documents, an
\* unbuilt index counting as none.
C12_VectorCountEqualsDocumentCount ==
    (IF index = None THEN 0 ELSE Len(index.xb)) = Len(documents)

\* activate_model succeeded on a file while a handle from another file was held.
ActivatedOverLoaded ==
    /\ last.op = "activate_model"
    /\ last.status = 200
    /\ last.pre_model # None
    /\ last.pre_model.model_path # join(MODELS_DIR, last.model_name)

\* C13: the assistant holds at most one handle; once activate_model(B) has
\* succeeded over a loaded model A, the held handle is the one loaded from B's
\* file, A's handle is gone, and a list_models that follows marks B and only B.
C13_OneHandleAndOneActive ==
    [][/\ (model = None \/ model.kind = "Llama")
       /\ ActivatedOverLoaded =>
             /\ model # None
             /\ model.model_path = join(MODELS_DIR, last.model_name)
             /\ model # last.pre_model
             /\ last'.op = "list_models" =>
                   {m.name : m \in {x \in last'.models : x.is_active}} = {last.model_name}]_vars

\* C13 witness: such an activation with both model files in the directory.
C13_Witness ==
    /\ ActivatedOverLoaded
    /\ ModelNames \subseteq files

(***************************************************************************)
(* Properties of the parameter derivation (SpecParams).                    *)
(***************************************************************************)
\* The lower-cased name holds none of the four family markers.
NoFamilyMarker(name) ==
    \A f \in {lower(name)} :
        \A marker \in {llama, mistral, phi, gemma} : ~Contains(f, marker)

\* C14: a call of _get_model_params changes nothing of the assistant, two
\* calls on the same file name return the same parameters whatever the
\* directory and whatever is loaded, and a file name without a family marker
\* gets context 2048, 4 threads and 0 GPU layers.
C14_ParamsPureWithDefaults ==
    [][(last'.op = "_get_model_params" /\ last' # last) =>
          /\ UNCHANGED <<model, model_path, index, documents, files, notes>>
          /\ (last.op = "_get_model_params"
                /\ basename(last.path) = basename(last'.path)) =>
                last'.params = last.params
          /\ \A name \in {basename(last'.path)} :
                NoFamilyMarker(name) =>
                    /\ last'.params.n_ctx = 2048
                    /\ last'.params.n_threads = 4
                    /\ last'.params.n_gpu_layers = 0]_vars

\* C14 witness: a call on a name without a family marker, outside the model
\* directory, while a model is loaded.
C14_Witness ==
    /\ last.op = "_get_model_params"
    /\ NoFamilyMarker(basename(last.path))
    /\ last.path.dirname # MODELS_DIR
    /\ model # None
    /\ last.params.n_ctx = 2048

\* The lower-cased name holds a family marker documented with window 4096.
Documented4096(name) ==
    \E f \in {lower(name)} :
        \/ Contains(f, mistral)
        \/ Contains(f, gemma)
        \/ Contains(f, phi) /\ Contains(f, mini)
        \/ Contains(f, llama) /\ (Contains(f, <<"2">>) \/ Contains(f, <<"3">>))

\* C15: a file name holding a family marker documented with window 4096 gets
\* context 4096, also when markers of several families occur in it, and every
\* file name gets 2048 or 4096.
C15_FamilyMarkerGives4096 ==
    last.op = "_get_model_params" =>
        /\ \A name \in {basename(last.path)} :
              Documented4096(name) => last.params.n_ctx = 4096
        /\ last.params.n_ctx \in {2048, 4096}

(***************************************************************************)
(* Further properties of the request handlers (Spec).                      *)
(***************************************************************************)
\* C16: activate_model on a name with no file in the model directory answers
\* 404 without calling the engine, and leaves the held handle and the recorded
\* path as they were.
C16_ActivateMissingIs404 ==
    (last.op = "activate_model" /\ last.model_name \notin files) =>
        /\ last.status = 404
        /\ last.attempts = <<>>
        /\ model = last.pre_model
        /\ model_path = last.pre_model_path

\* C16 witness: such a request while a model from the other file is loaded.
C16_Witness ==
    /\ last.op = "activate_model"
    /\ last.model_name \notin files
    /\ last.pre_model # None
    /\ last.pre_model_path # None
    /\ last.status = 404

\* C17: an upload whose file name does not end in ".gguf" is rejected and
\* writes nothing; an accepted upload is stored under the supplied name, with
\* ".gguf" appended when it lacks it, and list_models then shows it.
C17_UploadStoresVisibleGguf ==
    [][(last'.op = "upload_model" /\ last' # last) =>
          IF ~endswith(last'.filename, GGUF)
          THEN /\ last'.status = 400
               /\ files' = files
          ELSE /\ last'.status = 200
               /\ endswith(last'.save_name, GGUF)
               /\ files' = files \cup {last'.save_name}
               /\ \E m \in list_models(model_path', files') : m.name = last'.save_name]_vars

(***************************************************************************)
(* Properties of the note store (SpecNotes).                               *)
(***************************************************************************)
\* The ids of the rows of a list of notes.
IdsOf(rows) == {rows[i].id : i \in 1..Len(rows)}

\* The last request was a delete of this id answered 204.
Deleted(note_id) ==
    /\ last.op = "delete_note"
    /\ last.note_id = note_id
    /\ last.status = 204

\* C19: a delete of a stored id answers 204 and removes it, and no get_notes
\* from then on returns a note with that id; a delete of an id that is not
\* stored answers 404 and leaves the stored notes as they were.
C19_DeletedNoteStaysGone ==
    /\ [][(last'.op = "delete_note" /\ last' # last) =>
             IF last'.note_id \in IdsOf(notes)
             THEN /\ last'.status = 204
                  /\ IdsOf(notes') = IdsOf(notes) \ {last'.note_id}
             ELSE /\ last'.status = 404
                  /\ notes' = notes]_vars
    /\ \A note_id \in NoteIds :
          [](Deleted(note_id) =>
                [](last.op = "get_notes" => note_id \notin IdsOf(last.notes)))

\* C19 witness: a get_notes that still returns notes after one was deleted.
C19_Witness ==
    /\ last.op = "get_notes"
    /\ last.notes # <<>>
    /\ Len(notes) < issued

\* The field is absent from the body, empty, or made of whitespace only.
Blank(payload, field) ==
    \/ field \notin DOMAIN payload
    \/ \A i \in 1..Len(payload[field]) : payload[field][i] \in Whitespace

\* C20: a create request whose title or content is missing, empty or blank
\* is answered 422 and stores nothing; every stored note has a non-empty title
\* and a non-empty content.
C20_BlankNoteRejected ==
    [][/\ (last'.op = "add_note" /\ last' # last) =>
             IF Blank(last'.payload, "title") \/ Blank(last'.payload, "content")
             THEN /\ last'.status = 422
                  /\ notes' = notes
             ELSE /\ last'.status = 201
                  /\ Len(notes') = Len(notes) + 1
       /\ \A i \in 1..Len(notes') :
             notes'[i].title # <<>> /\ notes'[i].content # <<>>]_vars

\* C20 witness: a body with a blank title and a good content was rejected
\* while notes were stored.
C20_Witness ==
    /\ last.op = "add_note"
    /\ last.status = 422
    /\ "title" \in DOMAIN last.payload
    /\ last.payload.title = <<" ", "\t">>
    /\ last.payload.content = apples
    /\ notes # <<>>

(***************************************************************************)
(* Properties of asks in flight (SpecAsk).                                 *)
(***************************************************************************)
\* C18: whatever was created, deleted or asked while an ask waited, each of
\* its sources is a note of the corpus its own SELECT returned, and the
\* documents and the index it searched are the ones built from that corpus.
C18_SourcesFromFetchedCorpus ==
    (last.op = "ask_llm" /\ last.status = 200) =>
        /\ \A j \in 1..Len(last.sources) : last.sources[j] \in Range(last.corpus)
        /\ documents = last.corpus
        /\ index = IndexFlatL2([i \in 1..Len(last.corpus) |->
                                   encode(title_content(last.corpus[i]))])

\* C18 witness: an ask returned sources although the table had changed since
\* its SELECT, while another ask holding other rows was waiting.
C18_Witness ==
    /\ last.op = "ask_llm"
    /\ last.status = 200
    /\ last.sources # <<>>
    /\ last.corpus # notes
    /\ \E r \in Requests : pending[r] # None /\ pending[r].rows # last.corpus

(***************************************************************************)
(* Further properties of the parameter derivation (SpecParams).            *)
(***************************************************************************)
\* The lower-cased name holds one of the two 4-bit quantisation markers.
QuantisedFourBit(name) ==
    \E f \in {lower(name)} : Contains(f, q4_0) \/ Contains(f, q4_k_m)

\* C21: every file name gets 4 threads and 0 GPU layers; n_batch is set, to
\* 512, exactly when the lower-cased name holds "q4_0" or "q4_k_m", whichever
\* family branch matched.
C21_ThreadsGpuAndBatch ==
    last.op = "_get_model_params" =>
        /\ last.params.n_threads = 4
        /\ last.params.n_gpu_layers = 0
        /\ \A name \in {basename(last.path)} :
              ("n_batch" \in DOMAIN last.params) <=> QuantisedFourBit(name)
        /\ "n_batch" \in DOMAIN last.params => last.params.n_batch = 512

\* C21 witness: a q4_k_m name of a family with window 4096.
C21_Witness ==
    /\ last.op = "_get_model_params"
    /\ Contains(basename(last.path), q4_k_m)
    /\ last.params.n_ctx = 4096
    /\ "n_batch" \in DOMAIN last.params

(***************************************************************************)
(* Properties of the active-model state under the request handlers (Spec). *)
(***************************************************************************)
\* C24: delete_model on the file recorded as active clears the handle and the
\* recorded path whether or not the removal that follows succeeds, and in
\* every state a recorded path names a file present in the model directory.
C24_ClearedBeforeRemoval ==
    [][/\ (/\ last'.op = "delete_model"
           /\ last' # last
           /\ last'.model_name \in files
           /\ model_path = join(MODELS_DIR, last'.model_name)) =>
             (model' = None /\ model_path' = None)
       /\ model_path' # None => exists(model_path', files')]_vars

\* C24 witness: the removal of the active model's file failed, and the state
\* is cleared while the file is still there.
C24_Witness ==
    /\ last.op = "delete_model"
    /\ last.status = 500
    /\ last.pre_model # None
    /\ last.pre_model_path = join(MODELS_DIR, last.model_name)
    /\ last.model_name \in files
    /\ model = None
    /\ model_path = None

\* C25: whenever a handle is loaded, the recorded path is the path of the
\* file the handle was loaded from.
C25_HandleMatchesPath ==
    model # None => model_path = model.model_path

\* C26: list_models marks at most one model as active, and none when no
\* handle is loaded.
C26_ActiveOnlyWhenLoaded ==
    last.op = "list_models" =>
        /\ Cardinality({m \in last.models : m.is_active}) <= 1
        /\ model = None => \A m \in last.models : ~m.is_active

\* delete_model succeeded on a file other than the one the held handle had
\* been loaded from.
DeletedOtherFile ==
    /\ last.op = "delete_model"
    /\ last.status = 200
    /\ last.pre_model # None
    /\ last.pre_model.model_path # join(MODELS_DIR, last.model_name)

\* C27: delete_model on a file other than the one the handle was loaded from
\* leaves the handle as it was, and the next ask generates with it.
C27_DeleteOtherKeepsHandle ==
    [][DeletedOtherFile =>
          /\ model = last.pre_model
          /\ (last'.op = "ask_llm" /\ last'.status = 200) =>
                last'.invoked = last.pre_model]_vars

(***************************************************************************)
(* Properties of the requests in flight on the event loop (SpecLoop).      *)
(***************************************************************************)
\* A model load is in progress.
LoadInProgress == \E r \in Requests : At(r, "load")

\* A generation is in progress.
GenerationInProgress == \E r \in Requests : At(r, "generate")

\* C22: load and generation are serialized.  While a load is in progress the
\* only step taken is the end of that load (no ask indexes, tests the handle,
\* invokes it or answers in between), at most one request is inside a load
\* or a generation, and the handle an ask invokes is the handle it tested as
\* loaded.
C22_LoadAndGenerationSerialized ==
    [][/\ LoadInProgress =>
             \E r \in Requests :
                 /\ At(r, "load")
                 /\ pending' = [pending EXCEPT ![r] = None]
                 /\ last'.op = "activate_model"
                 /\ UNCHANGED <<index, documents>>
       /\ Cardinality({r \in Requests : pending'[r] # None /\ pending'[r].at # "select"}) <= 1
       /\ \A r \in Requests :
             (pending'[r] # None /\ pending'[r].at = "generate") =>
                 pending'[r].invoked = pending'[r].tested
       /\ (last'.op = "ask_llm" /\ last'.status = 200 /\ last'.tested # None) =>
             last'.invoked = last'.tested]_vars

\* C22 witness: an ask has generated with the handle it tested, the handle
\* still held, while another ask is suspended on its SELECT.
C22_Witness ==
    /\ last.op = "ask_llm"
    /\ last.status = 200
    /\ last.tested # None
    /\ last.invoked = last.tested
    /\ last.tested = model
    /\ \E r \in Requests : At(r, "select")

\* C23: while a load or a generation is in progress, a request can be
\* answered: list_models can be served in that state.
C23_ServedDuringLoadOrGeneration ==
    (LoadInProgress \/ GenerationInProgress) => ENABLED LoopListModels

====
